---- MODULE Spec2Model ----
(***************************************************************************)
(* A model of src/index.ts, the SmartPy compile adapter: the entry points  *)
(* compile.all / compile.necessary / compileSmartPy, the preflight check   *)
(* checkSmartPy, the per-file invocation execSmartPy and the sequential    *)
(* loop of compileAll with its reconciliation of the build directory.      *)
(*                                                                         *)
(* Strings (paths, file names) are sequences of one-character strings, so  *)
(* that basename, extname, includes and sort are computed, not assumed.    *)
(***************************************************************************)
EXTENDS Integers, Sequences, FiniteSets, TLC

\* ---------------------------------------------------------------- bounds

\* Longest list of source paths one request carries.
MaxPaths == 2

\* Most "data" chunks the stderr stream of one subprocess delivers.
MaxStderr == 1

\* The most requests one caller makes, one after the other, against the same
\* build directory.
MaxRequests == 2

\* --------------------------------------------------------------- strings

Str_py == <<".", "p", "y">>
Str_tz == <<".", "t", "z">>
Str_tz_json == <<".", "t", "z", ".", "j", "s", "o", "n">>
Str_contractStorage_tz ==
    <<"c", "o", "n", "t", "r", "a", "c", "t", "S", "t", "o", "r", "a", "g", "e",
      ".", "t", "z">>

\* The characters of the modelled paths in UTF-16 code unit order, which is
\* the order Array.prototype.sort compares strings by.
CodeUnitOrder == <<".", "/", "a", "b", "f", "o", "p", "r", "t", "x", "y">>

CodeUnit(c) == CHOOSE i \in 1..Len(CodeUnitOrder) : CodeUnitOrder[i] = c

\* s < t as JavaScript compares two strings.
RECURSIVE StrLess(_, _)
StrLess(s, t) ==
    IF t = <<>> THEN FALSE
    ELSE IF s = <<>> THEN TRUE
    ELSE IF Head(s) = Head(t) THEN StrLess(Tail(s), Tail(t))
    ELSE CodeUnit(Head(s)) < CodeUnit(Head(t))

\* String.prototype.includes
Includes(s, sub) ==
    \E i \in 1..(Len(s) - Len(sub) + 1) : SubSeq(s, i, i + Len(sub) - 1) = sub

EndsWith(s, suf) ==
    /\ Len(s) >= Len(suf)
    /\ SubSeq(s, Len(s) - Len(suf) + 1, Len(s)) = suf

\* Position of the last occurrence of character c in s, 0 when there is none.
LastIndexOf(s, c) ==
    IF \E i \in 1..Len(s) : s[i] = c
    THEN CHOOSE i \in 1..Len(s) : s[i] = c /\ \A j \in (i+1)..Len(s) : s[j] # c
    ELSE 0

\* The last segment of a path.
LastSegment(p) == SubSeq(p, LastIndexOf(p, "/") + 1, Len(p))

\* path.extname: from the last "." of the last segment, "" when there is none
\* or when it is the segment's first character.
extname(p) ==
    LET seg == LastSegment(p)
        dot == LastIndexOf(seg, ".")
    IN  IF dot <= 1 THEN <<>> ELSE SubSeq(seg, dot, Len(seg))

\* path.basename(p, ext)
basename(p, ext) ==
    LET seg == LastSegment(p)
    IN  IF ext # <<>> /\ ext # seg /\ EndsWith(seg, ext)
        THEN SubSeq(seg, 1, Len(seg) - Len(ext))
        ELSE seg

\* A filter that lets every path through.
minimatchAny(p) == TRUE

\* minimatch(path, SMARTPY_PATTERN) with SMARTPY_PATTERN = "**/*.py": the last
\* segment is "*.py" ("*" does not match a leading dot).
minimatch(p) ==
    LET seg == LastSegment(p)
    IN  /\ EndsWith(seg, Str_py)
        /\ Len(seg) > Len(Str_py)
        /\ Head(seg) # "."

\* Array.prototype.sort without a comparator, on an array of strings.
RECURSIVE Insert(_, _)
Insert(x, sorted) ==
    IF sorted = <<>> THEN <<x>>
    ELSE IF StrLess(x, Head(sorted)) THEN <<x>> \o sorted
    ELSE <<Head(sorted)>> \o Insert(x, Tail(sorted))

RECURSIVE sort(_)
sort(a) == IF a = <<>> THEN <<>> ELSE Insert(Head(a), sort(Tail(a)))


\* ------------------------------------------------------ the modelled world

Path_a_foo_py == <<"a", "/", "f", "o", "o", ".", "p", "y">>
Path_b_foo_py == <<"b", "/", "f", "o", "o", ".", "p", "y">>
Path_a_bar_py == <<"a", "/", "b", "a", "r", ".", "p", "y">>
Path_a_foo_txt == <<"a", "/", "f", "o", "o", ".", "t", "x", "t">>

\* The source paths a caller or a collaborator may hand over.
SourcePaths == {Path_a_foo_py, Path_b_foo_py, Path_a_bar_py, Path_a_foo_txt}

\* Lists of distinct paths of S, at most MaxPaths long.
PathLists(S) ==
    UNION {{l \in [1..n -> S] : \A i, j \in 1..n : i # j => l[i] # l[j]} :
           n \in 0..MaxPaths}

\* A file of the build directory: its name, the source path whose compilation
\* wrote it (<<>> for a file that was there before), and the form of its text.
File(name, by, form) == [name |-> name, by |-> by, form |-> form]

\* Entries an earlier build may have left in the build directory: a Truffle
\* artifact and a byte-compiled Python file.
PriorFiles ==
    {File(<<"f", "o", "o", ".", "j", "s", "o", "n">>, <<>>, "raw"),
     File(<<"f", "o", "o", ".", "p", "y", "c">>, <<>>, "raw")}

\* The build directory before the request: absent, or holding the entries
\* of an earlier build.
InitBuildDirs ==
    {[exists |-> FALSE, files |-> {}],
     [exists |-> TRUE, files |-> PriorFiles]}

\* The files one run of the external compiler may write for source path p
\* with logical name n: a source echo, a JSON program (pretty-printed, compact
\* or malformed), the initial storage and the raw program.
Echo(p, n) == File(n \o Str_py, p, "source")
Json(p, n, form) == File(n \o Str_tz_json, p, form)
Storage(p) == File(Str_contractStorage_tz, p, "raw")
Raw(p, n) == File(n \o Str_tz, p, "raw")

\* What one run may leave behind: nothing, the full set, a set without the
\* initial storage, a set whose JSON program is malformed, raw files alone.
CompilerOutputs(p, n) ==
    {{},
     {Echo(p, n), Json(p, n, "pretty"), Storage(p)},
     {Echo(p, n), Json(p, n, "compact"), Raw(p, n)},
     {Echo(p, n), Json(p, n, "invalid"), Storage(p)},
     {Raw(p, n), Storage(p)}}

\* Writing files into a directory replaces the entries of the same name.
WriteFiles(files, out) ==
    {f \in files : \A g \in out : g.name # f.name} \cup out

\* ------------------------------------------------------------------ values

NoError == [kind |-> "none", path |-> <<>>, stderr |-> <<>>]
Error(kind, path, stderr) == [kind |-> kind, path |-> path, stderr |-> stderr]

Undefined == [by |-> <<>>, form |-> "undefined"]

\* JSON.stringify(JSON.parse(text)): the compact form of a well-formed text.
\* (A malformed text makes JSON.parse throw; see forEachStep.)
JsonParses(text) == text.form \in {"compact", "pretty"}
\* The text handed on as it was read, without the parse and stringify.
JsonAsRead(text) == [by |-> text.by, form |-> text.form]
JsonCanonical(text) == [by |-> text.by, form |-> "compact"]

\* readFileSync(path).toString(): the text as it is.
RawText(file) == [by |-> file.by, form |-> file.form]

\* The compiler identity of lines 12-15.
compiler == [name |-> "smartpy", version |-> "trufflesuite/smartpy-basic:0.0.2"]

\* ------------------------------------------------------------ the promise

Pending == [state |-> "pending", value |-> <<>>, reason |-> NoError]

\* A promise settles once: resolve and reject do nothing to a settled one.
Reject(promise, reason) ==
    IF promise.state = "pending"
    THEN [state |-> "rejected", value |-> <<>>, reason |-> reason]
    ELSE promise

Resolve(promise, value) ==
    IF promise.state = "pending"
    THEN [state |-> "fulfilled", value |-> value, reason |-> NoError]
    ELSE promise

\* ------------------------------------------------------------------- state

VARIABLES
    phase,          \* "idle", "find_contracts", "updated", "preflight",
                    \* "compiling" or "done": where the request stands
    options,        \* the request's options object (paths, quiet, strict) and
                    \* whether a callback was passed
    buildDir,       \* options.contracts_build_directory on disk
    mkdirpPending,  \* a promisifiedMkdirp call has not finished yet
    procs,          \* the compiler subprocesses in flight
    contracts,      \* compileAll's local array of contract definitions
    calls,          \* every invocation of the caller's callback, in order
    returned,       \* the promise compileAll returned
    uncaught,       \* an exception left a handler (callback is not a function)
    execCount,      \* preflight subprocesses started by checkSmartPy
    checked,        \* the err the preflight's exec callback was called with
    invocations,    \* every compiler subprocess started, in order
    settlements,    \* every settled execSmartPy promise, in order
    fsLog,          \* the kinds of fs call made on sources and build directory
    request         \* the entry point called and the paths it was handed

vars ==
    <<phase, options, buildDir, mkdirpPending, procs, contracts, calls,
      returned, uncaught, execCount, checked, invocations, settlements, fsLog,
      request>>

NoOptions ==
    [paths |-> <<>>, quiet |-> FALSE, strict |-> FALSE,
     callbackPassed |-> TRUE]

\* compileAll's promise: not yet called, pending, fulfilled (with the object
\* of line 229 when no callback was passed) or rejected.
Returned(state, hasResult, result, paths, reason) ==
    [state |-> state, hasResult |-> hasResult, result |-> result,
     paths |-> paths, reason |-> reason]
NotCalled == Returned("none", FALSE, <<>>, <<>>, NoError)

\* One invocation of the caller's callback: callback(err) or
\* callback(null, result, paths[, compiler]).
Call(err, hasResult, result, paths) ==
    [err |-> err, hasResult |-> hasResult, result |-> result, paths |-> paths]

\* number: how many requests the caller has made so far
NoRequest == [entry |-> "none", paths |-> <<>>, failed |-> FALSE, number |-> 0]

\* The preflight's callback has not been called.
NotChecked == [kind |-> "not called", path |-> <<>>, stderr |-> <<>>]

\* The exit codes a subprocess may close with.
ExitCodes == {0, 1}

\* options.quiet and options.strict as a caller may set them.
QuietValues == BOOLEAN
StrictValues == BOOLEAN

Init ==
    /\ phase = "idle"
    /\ options = NoOptions
    /\ buildDir \in InitBuildDirs
    /\ mkdirpPending = FALSE
    /\ procs = {}
    /\ contracts = <<>>
    /\ calls = <<>>
    /\ returned = NotCalled
    /\ uncaught = FALSE
    /\ execCount = 0
    /\ checked = NotChecked
    /\ invocations = <<>>
    /\ settlements = <<>>
    /\ fsLog = {}
    /\ request = NoRequest


\* ------------------------------------------------------------ execSmartPy

\* The logical name of lines 117-120.
contractName(sourcePath) == basename(sourcePath, extname(sourcePath))

\* A close handler that rejects only when the exit code is not 0 and stderr
\* output was captured as well.
closeHandlerBothNeeded(code, stderr, sourcePath) ==
    LET failed == code # 0 /\ stderr # <<>>
        p1 == IF failed
              THEN Reject(Pending, Error("compile", sourcePath, stderr))
              ELSE Pending
    IN  Resolve(p1, contractName(sourcePath))

\* docker.on("close", ...), lines 147-157: reject when the exit code is not 0
\* or anything was captured from stderr, then resolve(contractName) in either
\* case; the value is the promise as those two calls leave it.
closeHandler(code, stderr, sourcePath) ==
    LET failed == code # 0 \/ stderr # <<>>
        p1 == IF failed
              THEN Reject(Pending, Error("compile", sourcePath, stderr))
              ELSE Pending
    IN  Resolve(p1, contractName(sourcePath))

\* The loop with every path's subprocess started at once.
LaunchNowAll(paths, i) == [k \in 1..(Len(paths) - i + 1) |-> i + k - 1]

\* for (const sourcePath of options.paths) { ... await execSmartPy(...) },
\* lines 170-173: on entering iteration i the loop calls execSmartPy for
\* path i alone and waits for it.
LaunchNow(paths, i) == <<i>>

\* A catch block that swallows the rejection and carries on.
awaitOutcomeSwallowed(promise, callbackPassed) == "continue"

\* try { contractName = await execSmartPy(...) } catch (error) { ... },
\* lines 172-177: what the loop does once the promise has settled.
awaitOutcome(promise, callbackPassed) ==
    IF promise.state = "rejected"
    THEN IF callbackPassed THEN "callback" ELSE "throw"
    ELSE "continue"

\* The synchronous part of execSmartPy for the paths LaunchNow names,
\* lines 109-145: existsSync, the mkdirp call that nothing waits for, spawn.
\* `made` says whether that mkdirp has created the directory by the time
\* the subprocess is spawned.
StartInvocations(paths, i, dir, running, log, made, pushed) ==
    LET L == LaunchNow(paths, i)
        absent == ~dir.exists
        dirAtSpawn == IF absent /\ made THEN [dir EXCEPT !.exists = TRUE] ELSE dir
        proc(k) == [index |-> L[k], sourcePath |-> paths[L[k]], stderr |-> <<>>]
        started(k) ==
            [index |-> L[k], sourcePath |-> paths[L[k]],
             dirExists |-> dirAtSpawn.exists,
             dirNames |-> {f.name : f \in dirAtSpawn.files},
             inFlight |-> Cardinality(running) + k - 1,
             reconciled |-> pushed]
    IN  /\ buildDir' = dirAtSpawn
        /\ mkdirpPending' = (mkdirpPending \/ (absent /\ ~made))
        /\ procs' = running \cup {proc(k) : k \in 1..Len(L)}
        /\ invocations' = invocations \o [k \in 1..Len(L) |-> started(k)]
        /\ fsLog' = log \cup {"existsSync"} \cup (IF absent THEN {"mkdirp"} ELSE {})

\* Whether the mkdirp call has finished by the spawn: open only when the
\* directory was absent.
MadeChoices(dir) == IF dir.exists THEN {FALSE} ELSE BOOLEAN


\* ----------------------------------------------- compileAll: reconciliation

\* The state the forEach callback of lines 187-207 works on.
Scan(files, michelson, initialStorage, threw, log) ==
    [files |-> files, michelson |-> michelson, initialStorage |-> initialStorage,
     threw |-> threw, log |-> log]

unlinkSync(scan, file) ==
    [scan EXCEPT !.files = @ \ {file}, !.log = @ \cup {"unlinkSync"}]

\* The callback with the raw-output test narrowed to the storage file.
forEachStepStorageOnly(scan, file) ==
    IF Includes(file.name, Str_py) THEN unlinkSync(scan, file)
    ELSE IF Includes(file.name, Str_tz_json)
    THEN IF JsonParses(file)
         THEN unlinkSync([scan EXCEPT !.michelson = JsonCanonical(file),
                                      !.log = @ \cup {"readFileSync"}], file)
         ELSE [scan EXCEPT !.threw = TRUE, !.log = @ \cup {"readFileSync"}]
    ELSE IF file.name = Str_contractStorage_tz
    THEN unlinkSync([scan EXCEPT !.initialStorage = RawText(file),
                                 !.log = @ \cup {"readFileSync"}], file)
    ELSE scan

\* The callback with the ".tz" test placed before the ".tz.json" test.
forEachStepRawFirst(scan, file) ==
    IF Includes(file.name, Str_py) THEN unlinkSync(scan, file)
    ELSE IF Includes(file.name, Str_tz)
    THEN IF file.name = Str_contractStorage_tz
         THEN unlinkSync([scan EXCEPT !.initialStorage = RawText(file),
                                      !.log = @ \cup {"readFileSync"}], file)
         ELSE unlinkSync(scan, file)
    ELSE IF Includes(file.name, Str_tz_json)
    THEN IF JsonParses(file)
         THEN unlinkSync([scan EXCEPT !.michelson = JsonCanonical(file),
                                      !.log = @ \cup {"readFileSync"}], file)
         ELSE [scan EXCEPT !.threw = TRUE, !.log = @ \cup {"readFileSync"}]
    ELSE scan

\* The callback of currentBuildDirectoryContents.forEach, lines 187-207, on
\* one directory entry: the three substring tests in their order.
forEachStep(scan, file) ==
    IF Includes(file.name, Str_py) THEN unlinkSync(scan, file)
    ELSE IF Includes(file.name, Str_tz_json)
    THEN IF JsonParses(file)
         THEN unlinkSync([scan EXCEPT !.michelson = JsonCanonical(file),
                                      !.log = @ \cup {"readFileSync"}], file)
         ELSE [scan EXCEPT !.threw = TRUE, !.log = @ \cup {"readFileSync"}]
    ELSE IF Includes(file.name, Str_tz)
    THEN IF file.name = Str_contractStorage_tz
         THEN unlinkSync([scan EXCEPT !.initialStorage = RawText(file),
                                      !.log = @ \cup {"readFileSync"}], file)
         ELSE unlinkSync(scan, file)
    ELSE scan

\* forEach over the entries in the order readdirSync returned them; an
\* exception (JSON.parse) ends the loop where it is thrown.
RECURSIVE forEach(_, _)
forEach(order, scan) ==
    IF order = <<>> \/ scan.threw THEN scan
    ELSE forEach(Tail(order), forEachStep(scan, Head(order)))

\* The entries the callback does anything with.
Handled(files) ==
    {f \in files : \/ Includes(f.name, Str_py)
                   \/ Includes(f.name, Str_tz_json)
                   \/ Includes(f.name, Str_tz)}

RECURSIVE Orderings(_)
Orderings(S) ==
    IF S = {} THEN {<<>>}
    ELSE UNION {{<<x>> \o rest : rest \in Orderings(S \ {x})} : x \in S}

\* The orders readdirSync may return the entries in. The callback returns at
\* once for an entry that passes none of its tests, so only the order of the
\* others is enumerated.
ReaddirOrders(files) == Orderings(Handled(files))

\* Lines 178-207 for one source path: read the source, list the build
\* directory, run the callback over the entries.
reconcile(files, order, log) ==
    forEach(order,
            Scan(files, Undefined, Undefined, FALSE,
                 log \cup {"readFileSync", "readdirSync"}))

\* The contract definition of lines 209-217.
contractDefinition(name, sourcePath, scan) ==
    [contractName |-> name, initialStorage |-> scan.initialStorage,
     sourcePath |-> sourcePath,
     source |-> [by |-> sourcePath, form |-> "source"],
     michelson |-> scan.michelson, compiler |-> compiler]

\* contracts.reduce(...), lines 222-226: a later contract of the same name
\* replaces the earlier one.
RECURSIVE reduce(_, _)
reduce(cs, result) ==
    IF cs = <<>> THEN result
    ELSE LET c == Head(cs)
         IN  reduce(Tail(cs),
                    [n \in DOMAIN result \cup {c.contractName} |->
                        IF n = c.contractName THEN c ELSE result[n]])


\* ------------------------------------------------------------- compileAll

\* compile.display, lines 63-76, as compileAll sees it: unless quiet is
\* true, paths.sort() sorts options.paths in place.
display(paths, quiet) == IF quiet # TRUE THEN sort(paths) ELSE paths

\* The callback is called (line 175 or 228); called though none was passed,
\* the call throws a TypeError.
InvokeCallback(callbackPassed, call) ==
    IF callbackPassed
    THEN calls' = Append(calls, call) /\ UNCHANGED uncaught
    ELSE uncaught' = TRUE /\ UNCHANGED calls

\* Line 228 without its return: the callback is called and the promise is
\* fulfilled with the result object of line 229 as well.
FinishFallsThrough(cs, paths) ==
    LET result == reduce(cs, <<>>)
    IN  /\ returned' = Returned("fulfilled", TRUE, result, paths, NoError)
        /\ IF options.callbackPassed
           THEN calls' = Append(calls, Call(NoError, TRUE, result, paths))
           ELSE UNCHANGED calls

\* Lines 222-229: fold the contracts and hand the result over.
Finish(cs, paths) ==
    LET result == reduce(cs, <<>>)
    IN  IF options.callbackPassed
        THEN /\ calls' = Append(calls, Call(NoError, TRUE, result, paths))
             /\ returned' = Returned("fulfilled", FALSE, <<>>, <<>>, NoError)
        ELSE /\ returned' = Returned("fulfilled", TRUE, result, paths, NoError)
             /\ UNCHANGED calls

\* Lines 178-220 for the source path of `proc`, whose promise was fulfilled
\* with `name`, and on to the next await or to the end of compileAll.
\*   order: the order readdirSync lists the entries in
ReconcileAndGoOn(proc, name, dirW, running, order) ==
    LET scan == reconcile(dirW.files, order, fsLog)
        dirR == [dirW EXCEPT !.files = scan.files]
        pushed == Append(contracts, contractDefinition(name, proc.sourcePath, scan))
    IN  IF scan.threw
        THEN \* line 194: JSON.parse throws out of compileAll
             /\ returned' = Returned("rejected", FALSE, <<>>, <<>>,
                                     Error("JSON.parse", proc.sourcePath, <<>>))
             /\ phase' = "done"
             /\ buildDir' = dirR
             /\ procs' = running
             /\ fsLog' = scan.log
             /\ UNCHANGED <<mkdirpPending, contracts, calls, uncaught, invocations>>
        ELSE /\ contracts' = pushed
             /\ IF proc.index < Len(options.paths)
                THEN \* the next iteration, up to its await
                     /\ \E made \in MadeChoices(dirR) :
                            StartInvocations(options.paths, proc.index + 1, dirR,
                                             running, scan.log, made, Len(pushed))
                     /\ UNCHANGED <<phase, calls, returned, uncaught>>
                ELSE \* the loop is over
                     /\ Finish(pushed, options.paths)
                     /\ phase' = "done"
                     /\ buildDir' = dirR
                     /\ procs' = running
                     /\ fsLog' = scan.log
                     /\ UNCHANGED <<mkdirpPending, uncaught, invocations>>

\* What the compiler may have written by the time it closes: nothing when
\* the build directory is not there.
OutputChoices(proc, dirThere) ==
    IF dirThere THEN CompilerOutputs(proc.sourcePath, contractName(proc.sourcePath))
    ELSE {{}}

\* The subprocess of `proc` closes with exit code `code` having written
\* `out`; compileAll resumes after its await and runs, without a pause, up
\* to the next await (the next subprocess is spawned) or to its end.
\*   created: the compiler made the build directory where it was still absent
DockerClose(proc, code, out, created) ==
    LET dirW == IF buildDir.exists \/ created
                THEN [exists |-> TRUE, files |-> WriteFiles(buildDir.files, out)]
                ELSE buildDir
        settled == closeHandler(code, proc.stderr, proc.sourcePath)
        what == awaitOutcome(settled, options.callbackPassed)
        running == procs \ {proc}
    IN  /\ phase = "compiling"
        /\ settlements' = Append(settlements,
               [index |-> proc.index, sourcePath |-> proc.sourcePath, code |-> code,
                stderr |-> proc.stderr, state |-> settled.state,
                value |-> settled.value, reason |-> settled.reason,
                written |-> out])
        /\ UNCHANGED <<options, execCount, checked, request>>
        /\ IF what = "callback"
           THEN \* line 175: return callback(error)
                /\ calls' = Append(calls, Call(settled.reason, FALSE, <<>>, <<>>))
                /\ returned' = Returned("fulfilled", FALSE, <<>>, <<>>, NoError)
                /\ phase' = "done"
                /\ buildDir' = dirW
                /\ procs' = running
                /\ UNCHANGED <<mkdirpPending, contracts, uncaught, invocations, fsLog>>
           ELSE IF what = "throw"
           THEN \* line 176: throw error
                /\ returned' = Returned("rejected", FALSE, <<>>, <<>>, settled.reason)
                /\ phase' = "done"
                /\ buildDir' = dirW
                /\ procs' = running
                /\ UNCHANGED <<mkdirpPending, contracts, calls, uncaught, invocations, fsLog>>
           ELSE IF ~dirW.exists
           THEN \* line 183: readdirSync throws, the directory is not there
                /\ returned' = Returned("rejected", FALSE, <<>>, <<>>,
                                        Error("readdirSync", proc.sourcePath, <<>>))
                /\ phase' = "done"
                /\ buildDir' = dirW
                /\ procs' = running
                /\ fsLog' = fsLog \cup {"readFileSync", "readdirSync"}
                /\ UNCHANGED <<mkdirpPending, contracts, calls, uncaught, invocations>>
           ELSE \E order \in ReaddirOrders(dirW.files) :
                    ReconcileAndGoOn(proc, settled.value, dirW, running, order)

\* docker.stderr.on("data", ...), lines 143-145: stderr += data.
StderrData(proc) ==
    /\ phase = "compiling"
    /\ Len(proc.stderr) < MaxStderr
    /\ procs' = (procs \ {proc}) \cup {[proc EXCEPT !.stderr = @ \o <<"w">>]}
    /\ UNCHANGED <<phase, options, buildDir, mkdirpPending, contracts, calls,
                   returned, uncaught, execCount, checked, invocations,
                   settlements, fsLog, request>>

\* The mkdirp call of line 123 finishes: the directory is there.
MkdirpDone ==
    /\ mkdirpPending
    /\ mkdirpPending' = FALSE
    /\ buildDir' = [buildDir EXCEPT !.exists = TRUE]
    /\ UNCHANGED <<phase, options, procs, contracts, calls, returned, uncaught,
                   execCount, checked, invocations, settlements, fsLog, request>>


\* ------------------------------------------------- checkSmartPy, compileSmartPy

NoPreflightError == NoError
PreflightError == Error("checkSmartPy", <<>>, <<>>)

\* A preflight callback that never looks at err.
preflightFailedIgnored(err) == FALSE

\* if (err) ... in the callbacks of lines 84-88 and 242-243.
preflightFailed(err) == err # NoPreflightError

\* A compileSmartPy without the early return of line 240.
noSmartPyFilesUnchecked(paths) == FALSE

\* options.paths.length === 0, line 240.
noSmartPyFiles(paths) == Len(paths) = 0

\* compileSmartPy(options, callback), lines 233-247, up to the exec call of
\* checkSmartPy: filter the paths, answer at once when none is left, else
\* start the preflight subprocess.
compileSmartPy(paths, quiet, strict, callbackPassed) ==
    LET filtered == SelectSeq(paths, minimatch)
    IN  /\ options' = [paths |-> filtered, quiet |-> quiet, strict |-> strict,
                       callbackPassed |-> callbackPassed]
        /\ IF noSmartPyFiles(filtered)
           THEN /\ InvokeCallback(callbackPassed, Call(NoError, TRUE, <<>>, <<>>))
                /\ phase' = "done"
                /\ UNCHANGED execCount
           ELSE /\ phase' = "preflight"
                /\ execCount' = execCount + 1
                /\ UNCHANGED <<calls, uncaught>>
        /\ UNCHANGED <<buildDir, mkdirpPending, procs, contracts, returned,
                       checked, invocations, settlements, fsLog>>

\* The exec callback of checkSmartPy, lines 84-91, and through it the
\* callback of lines 242-246: on an error the caller's callback gets it, else
\* compileAll runs up to its first await.
CheckSmartPyCallback(err) ==
    /\ phase = "preflight"
    /\ checked' = err
    /\ IF preflightFailed(err)
       THEN /\ InvokeCallback(options.callbackPassed, Call(err, FALSE, <<>>, <<>>))
            /\ phase' = "done"
            /\ UNCHANGED <<options, buildDir, mkdirpPending, procs, contracts,
                           returned, invocations, fsLog>>
       ELSE LET paths == display(options.paths, options.quiet)
            IN  /\ options' = [options EXCEPT !.paths = paths]
                /\ contracts' = <<>>
                /\ returned' = Returned("pending", FALSE, <<>>, <<>>, NoError)
                /\ phase' = "compiling"
                /\ \E made \in MadeChoices(buildDir) :
                       StartInvocations(paths, 1, buildDir, procs, fsLog, made, 0)
                /\ UNCHANGED <<calls, uncaught>>
    /\ UNCHANGED <<execCount, settlements, request>>

\* ----------------------------------------------------------- entry points

\* The .py files of the contracts directory, as the glob of line 252 finds them.
SmartPySources == {p \in SourcePaths : minimatch(p)}

\* compileSmartPy.all -> compile.all, lines 33-34 and 257-258: find_contracts
\* is called and answers later.
CompileAll(quiet, strict) ==
    /\ phase = "idle"
    /\ phase' = "find_contracts"
    /\ options' = [NoOptions EXCEPT !.quiet = quiet, !.strict = strict]
    /\ request' = [entry |-> "all", paths |-> <<>>, failed |-> FALSE,
                   number |-> request.number + 1]
    /\ UNCHANGED <<buildDir, mkdirpPending, procs, contracts, calls, returned,
                   uncaught, execCount, checked, invocations, settlements, fsLog>>

\* The callback of find_contracts, lines 34-39.
FindContractsCallback(failed, files) ==
    /\ phase = "find_contracts"
    /\ request' = [request EXCEPT !.paths = files, !.failed = failed]
    /\ IF failed
       THEN /\ calls' = Append(calls, Call(Error("find_contracts", <<>>, <<>>),
                                           FALSE, <<>>, <<>>))
            /\ phase' = "done"
            /\ UNCHANGED <<options, buildDir, mkdirpPending, procs, contracts,
                           returned, uncaught, execCount, checked, invocations,
                           settlements, fsLog>>
       ELSE compileSmartPy(files, options.quiet, options.strict, TRUE)

\* compileSmartPy.necessary -> compile.necessary, lines 48-51 and 261-262:
\* Profiler.updated is called and answers later.
CompileNecessary(quiet, strict) ==
    /\ phase = "idle"
    /\ phase' = "updated"
    /\ options' = [NoOptions EXCEPT !.quiet = quiet, !.strict = strict]
    /\ request' = [entry |-> "necessary", paths |-> <<>>, failed |-> FALSE,
                   number |-> request.number + 1]
    /\ UNCHANGED <<buildDir, mkdirpPending, procs, contracts, calls, returned,
                   uncaught, execCount, checked, invocations, settlements, fsLog>>

\* The callback of Profiler.updated, lines 51-60.
UpdatedCallback(failed, updated) ==
    /\ phase = "updated"
    /\ request' = [request EXCEPT !.paths = updated, !.failed = failed]
    /\ IF failed
       THEN /\ calls' = Append(calls, Call(Error("Profiler.updated", <<>>, <<>>),
                                           FALSE, <<>>, <<>>))
            /\ phase' = "done"
            /\ UNCHANGED <<options, buildDir, mkdirpPending, procs, contracts,
                           returned, uncaught, execCount, checked, invocations,
                           settlements, fsLog>>
       ELSE IF Len(updated) = 0 /\ options.quiet # TRUE
       THEN /\ calls' = Append(calls, Call(NoError, TRUE, <<>>, <<>>))
            /\ phase' = "done"
            /\ UNCHANGED <<options, buildDir, mkdirpPending, procs, contracts,
                           returned, uncaught, execCount, checked, invocations,
                           settlements, fsLog>>
       ELSE compileSmartPy(updated, options.quiet, options.strict, TRUE)

\* The exported compileSmartPy called with a list of paths of its caller's
\* choosing, with or without a callback.
CompileWithDependencies(paths, quiet, strict, callbackPassed) ==
    /\ phase = "idle"
    /\ request' = [entry |-> "with_dependencies", paths |-> paths, failed |-> FALSE,
                   number |-> request.number + 1]
    /\ compileSmartPy(paths, quiet, strict, callbackPassed)

Next ==
    \/ \E quiet \in QuietValues, strict \in StrictValues : CompileAll(quiet, strict)
    \/ \E failed \in BOOLEAN, files \in PathLists(SmartPySources) :
           /\ failed => files = <<>>
           /\ FindContractsCallback(failed, files)
    \/ \E quiet \in QuietValues, strict \in StrictValues : CompileNecessary(quiet, strict)
    \/ \E failed \in BOOLEAN, updated \in PathLists(SmartPySources) :
           /\ failed => updated = <<>>
           /\ UpdatedCallback(failed, updated)
    \/ \E paths \in PathLists(SourcePaths), quiet \in QuietValues,
          strict \in StrictValues, callbackPassed \in BOOLEAN :
           CompileWithDependencies(paths, quiet, strict, callbackPassed)
    \/ \E err \in {NoPreflightError, PreflightError} : CheckSmartPyCallback(err)
    \/ \E proc \in procs : StderrData(proc)
    \/ MkdirpDone
    \/ \E proc \in procs, code \in ExitCodes, created \in BOOLEAN :
           /\ created => ~buildDir.exists
           /\ \E out \in OutputChoices(proc, buildDir.exists \/ created) :
                  DockerClose(proc, code, out, created)

Spec == Init /\ [][Next]_vars

\* The caller, answered, makes its next request: everything compileSmartPy
\* and compileAll keep is local to one call (options, contracts, the promise),
\* while the build directory on disk, and a mkdirp still under way, stay.
NewRequest ==
    /\ phase = "done"
    /\ request.number < MaxRequests
    /\ phase' = "idle"
    /\ options' = NoOptions
    /\ procs' = {}
    /\ contracts' = <<>>
    /\ calls' = <<>>
    /\ returned' = NotCalled
    /\ uncaught' = FALSE
    /\ execCount' = 0
    /\ checked' = NotChecked
    /\ invocations' = <<>>
    /\ settlements' = <<>>
    /\ fsLog' = {}
    /\ request' = [NoRequest EXCEPT !.number = request.number]
    /\ UNCHANGED <<buildDir, mkdirpPending>>

\* Requests for one source file each, made one after the other with a
\* callback, against the same build directory.
SeqNext ==
    \/ \E p \in SmartPySources, quiet \in QuietValues :
           CompileWithDependencies(<<p>>, quiet, FALSE, TRUE)
    \/ \E err \in {NoPreflightError, PreflightError} : CheckSmartPyCallback(err)
    \/ \E proc \in procs : StderrData(proc)
    \/ MkdirpDone
    \/ \E proc \in procs, code \in ExitCodes, created \in BOOLEAN :
           /\ created => ~buildDir.exists
           /\ \E out \in OutputChoices(proc, buildDir.exists \/ created) :
                  DockerClose(proc, code, out, created)
    \/ NewRequest

SpecSeq == Init /\ [][SeqNext]_vars


\* ------------------------------------------------------------------ claims

\* The callback invocations and the promise that carry a result mapping.
ResultDelivered == returned.hasResult \/ \E k \in 1..Len(calls) : calls[k].hasResult

\* The caller was handed `reason` as an error and nothing else: by the one
\* call callback(reason) when a callback was passed, else by the rejection of
\* compileAll's promise.
ErrorDelivered(reason) ==
    IF options.callbackPassed
    THEN calls = <<Call(reason, FALSE, <<>>, <<>>)>>
    ELSE calls = <<>> /\ returned.state = "rejected" /\ returned.reason = reason

\* C1: once the invocation for the i-th source path has failed, no
\* subprocess is ever started for a later path of the request, and the caller
\* gets that invocation's error and no result mapping.
C1_FirstFailureShortCircuits ==
    \A i \in 1..Len(settlements) :
        settlements[i].state = "rejected" =>
            /\ i = Len(settlements)
            /\ \A k \in 1..Len(invocations) :
                   invocations[k].index <= settlements[i].index
            /\ procs = {}
            /\ phase = "done"
            /\ ErrorDelivered(settlements[i].reason)
            /\ ~ResultDelivered

\* The first of two paths failed: the second was never started.
C1_Witness ==
    /\ Len(options.paths) = 2
    /\ Len(settlements) = 1
    /\ settlements[1].state = "rejected"
    /\ settlements[1].index = 1

\* The logical name of each modelled source path, spelled out.
LogicalNames ==
    (Path_a_foo_py :> <<"f", "o", "o">>) @@ (Path_b_foo_py :> <<"f", "o", "o">>)
    @@ (Path_a_bar_py :> <<"b", "a", "r">>) @@ (Path_a_foo_txt :> <<"f", "o", "o">>)

IsSourceEcho(name) == EndsWith(name, Str_py)
IsJsonProgram(name) == EndsWith(name, Str_tz_json)
IsRawProgram(name) == EndsWith(name, Str_tz)
IsRecognized(name) == IsSourceEcho(name) \/ IsJsonProgram(name) \/ IsRawProgram(name)

NoRecognizedName(names) == \A n \in names : ~IsRecognized(n)

\* C3: whenever the reconciliation of a successfully invoked source returns
\* (a contract definition is pushed), the build directory holds no file of
\* the three recognized classes; and every invocation after the first of a
\* request was started on a directory without such files.
C3_ReconciledDirectoryIsClean ==
    [][/\ Len(contracts') > Len(contracts) =>
              NoRecognizedName({f.name : f \in buildDir'.files})
       /\ \A k \in 2..Len(invocations') :
              NoRecognizedName(invocations'[k].dirNames)]_vars

\* A first source was reconciled, its JSON program captured and its raw
\* program file met, and the second invocation has started.
C3_Witness ==
    /\ Len(invocations) = 2
    /\ Len(contracts) = 1
    /\ contracts[1].michelson # Undefined
    /\ contracts[1].initialStorage = Undefined
    /\ buildDir.files = PriorFiles \ Handled(PriorFiles)

\* C4: at most one compiler subprocess is in flight, and the subprocess for
\* the k-th path is started only when the k-1 before it have closed and
\* their output has been reconciled.
C4_StrictlySequential ==
    /\ Cardinality(procs) <= 1
    /\ \A k \in 1..Len(invocations) :
           /\ invocations[k].index = k
           /\ invocations[k].inFlight = 0
           /\ invocations[k].reconciled = k - 1
           /\ Len(settlements) >= k - 1
           /\ \A j \in 1..(k - 1) : settlements[j].index = j

\* The second subprocess is in flight, the first closed and reconciled.
C4_Witness ==
    /\ Len(invocations) = 2
    /\ Cardinality(procs) = 1
    /\ Len(settlements) = 1
    /\ Len(contracts) = 1

\* C5: no compiler subprocess is started before the preflight has succeeded;
\* when the preflight fails the request is over with that error handed to
\* the caller, no compiler subprocess started and no fs call made on a source
\* file or the build directory.
C5_PreflightFirst ==
    /\ invocations # <<>> => checked = NoPreflightError /\ execCount = 1
    /\ phase = "preflight" => invocations = <<>> /\ fsLog = {}
    /\ checked \notin {NotChecked, NoPreflightError} =>
           /\ phase = "done"
           /\ invocations = <<>>
           /\ procs = {}
           /\ fsLog = {}
           /\ ~mkdirpPending
           /\ buildDir \in InitBuildDirs
           /\ ~ResultDelivered
           /\ IF options.callbackPassed
              THEN calls = <<Call(checked, FALSE, <<>>, <<>>)>>
              ELSE calls = <<>> /\ uncaught

\* The preflight failed for a request with SmartPy paths and a callback.
C5_Witness ==
    /\ checked = PreflightError
    /\ Len(options.paths) > 0
    /\ options.callbackPassed
    /\ phase = "done"

\* C6: compile.necessary with an empty stale set calls back once with an
\* empty mapping and an empty path list and starts no subprocess, neither
\* the preflight nor a compiler, whether quiet is true or not.
C6_EmptyStaleSet ==
    (/\ request.entry = "necessary"
     /\ phase # "updated"
     /\ ~request.failed
     /\ request.paths = <<>>)
    => /\ phase = "done"
       /\ calls = <<Call(NoError, TRUE, <<>>, <<>>)>>
       /\ execCount = 0
       /\ checked = NotChecked
       /\ invocations = <<>>
       /\ procs = {}

\* An empty stale set answered under quiet = true.
C6_Witness ==
    /\ request.entry = "necessary"
    /\ phase = "done"
    /\ ~request.failed
    /\ request.paths = <<>>
    /\ options.quiet = TRUE
    /\ Len(calls) = 1

\* C7 (as claimed): a request that succeeds hands over a mapping with one
\* entry per compiled source path, so two paths of one logical name never
\* end in a mapping where one record replaced the other.
C7_OneEntryPerSourcePath ==
    /\ \A k \in 1..Len(calls) :
           calls[k].hasResult =>
               Cardinality(DOMAIN calls[k].result) = Len(calls[k].paths)
    /\ returned.hasResult =>
           Cardinality(DOMAIN returned.result) = Len(returned.paths)

\* C8 (as claimed): when the request is over after a failed invocation, no
\* recognized-class file that invocation wrote is left in the build directory.
C8_FailureLeavesDirectoryClean ==
    (phase = "done" /\ settlements # <<>>
        /\ settlements[Len(settlements)].state = "rejected")
    => \A f \in buildDir.files :
           f.by = settlements[Len(settlements)].sourcePath => ~IsRecognized(f.name)

\* C9 (as claimed): an invocation that exits 0 with stderr output fails
\* unless options.strict is false, and then resolves with the logical name.
C9_StrictIsAnOption ==
    \A i \in 1..Len(settlements) :
        LET s == settlements[i]
        IN  (s.code = 0 /\ s.stderr # <<>>) =>
                IF options.strict = FALSE
                THEN s.state = "fulfilled" /\ s.value = LogicalNames[s.sourcePath]
                ELSE s.state = "rejected"

\* C10 (as claimed): the build directory exists whenever a compiler
\* subprocess is spawned.
C10_DirectoryExistsAtSpawn ==
    \A k \in 1..Len(invocations) : invocations[k].dirExists


\* The files of `files` of each recognized class.
JsonPrograms(files) == {f \in files : IsJsonProgram(f.name)}
SourceEchoes(files) == {f \in files : IsSourceEcho(f.name)}
StorageFiles(files) == {f \in files : f.name = Str_contractStorage_tz}

\* C12: for a successful run that leaves one JSON program, one source echo
\* and one initial-storage file in a build directory holding no other
\* recognized file, the contract's compiled program is the canonical
\* (compact) JSON of the program file and its initial storage the text of
\* the storage file as it is, in whichever order the entries are listed;
\* when the run left no storage file, the initial storage is undefined.
C12_RecordFromArtifacts ==
    \A k \in 1..Len(contracts) :
        LET c == contracts[k]
            w == settlements[k].written
            clean == NoRecognizedName(invocations[k].dirNames)
        IN  /\ (/\ clean
                /\ Cardinality(w) = 3
                /\ Cardinality(JsonPrograms(w)) = 1
                /\ Cardinality(SourceEchoes(w)) = 1
                /\ Cardinality(StorageFiles(w)) = 1)
               => /\ c.michelson = [by |-> c.sourcePath, form |-> "compact"]
                  /\ c.initialStorage = [by |-> c.sourcePath, form |-> "raw"]
            /\ (clean /\ StorageFiles(w) = {})
               => c.initialStorage = Undefined

\* A run left a pretty-printed JSON program, an echo and a storage file,
\* and its contract definition was built.
C12_Witness ==
    \E k \in 1..Len(contracts) :
        /\ settlements[k].written =
               {Echo(contracts[k].sourcePath, LogicalNames[contracts[k].sourcePath]),
                Json(contracts[k].sourcePath, LogicalNames[contracts[k].sourcePath], "pretty"),
                Storage(contracts[k].sourcePath)}
        /\ contracts[k].michelson # Undefined
        /\ contracts[k].initialStorage # Undefined


\* The paths of the request that compileSmartPy keeps, in the order given.
GivenSmartPyPaths == SelectSeq(request.paths, minimatch)

\* C13 (as claimed): the request's sequence of source paths is never
\* reordered: subprocesses are started in the order the paths were given and
\* the path list handed back is in that order, whatever quiet is.
C13_PathOrderKept ==
    /\ \A k \in 1..Len(invocations) :
           /\ k <= Len(GivenSmartPyPaths)
           /\ invocations[k].sourcePath = GivenSmartPyPaths[k]
    /\ \A k \in 1..Len(calls) :
           calls[k].hasResult => calls[k].paths = GivenSmartPyPaths
    /\ returned.hasResult => returned.paths = GivenSmartPyPaths


\* C14 (as claimed): when reconciliation fails and a callback was passed,
\* the request ends with the callback invoked with that error. Stated for
\* the failure to parse an artifact.
C14_ReconcileErrorReachesCallback ==
    (/\ phase = "done"
     /\ options.callbackPassed
     /\ returned.state = "rejected"
     /\ returned.reason.kind = "JSON.parse")
    => \E k \in 1..Len(calls) : calls[k].err = returned.reason


\* C15 (as claimed): no step removes or changes an entry of the build
\* directory that is not of one of the three recognized classes, such as a
\* file whose name only contains ".py" somewhere.
C15_OnlyRecognizedDeleted ==
    [][\A f \in buildDir.files :
           ~IsRecognized(f.name) => f \in buildDir'.files]_vars


\* C16: each entry is handled by the first rule that matches, in the order
\* source echo, JSON program, raw output. A JSON program file a run left is
\* parsed and becomes the compiled program (a malformed one fails in
\* JSON.parse); it is never treated as raw output, so the initial storage
\* only ever comes from the storage file and the compiled program only from
\* a JSON program file.
C16_FirstMatchingRule ==
    /\ \A k \in 1..Len(contracts) :
           LET c == contracts[k]
               w == settlements[k].written
               clean == NoRecognizedName(invocations[k].dirNames)
           IN  /\ JsonPrograms(w) # {} =>
                      \E j \in JsonPrograms(w) :
                          c.michelson = [by |-> j.by, form |-> "compact"]
               /\ (clean /\ JsonPrograms(w) = {}) => c.michelson = Undefined
               /\ clean =>
                      \/ c.initialStorage = Undefined
                      \/ \E f \in StorageFiles(w) :
                             c.initialStorage = [by |-> f.by, form |-> f.form]
    /\ \A k \in 1..Len(settlements) :
           (/\ settlements[k].state = "fulfilled"
            /\ \E j \in JsonPrograms(settlements[k].written) : j.form = "invalid")
           => /\ Len(contracts) < k
              /\ returned.state = "rejected"
              /\ returned.reason.kind = "JSON.parse"

\* A run left a JSON program and a raw program file but no storage file:
\* the program was captured, the raw file was not.
C16_Witness ==
    \E k \in 1..Len(contracts) :
        /\ settlements[k].written =
               {Echo(contracts[k].sourcePath, LogicalNames[contracts[k].sourcePath]),
                Json(contracts[k].sourcePath, LogicalNames[contracts[k].sourcePath], "compact"),
                Raw(contracts[k].sourcePath, LogicalNames[contracts[k].sourcePath])}
        /\ contracts[k].michelson # Undefined
        /\ contracts[k].initialStorage = Undefined


\* C17 (as claimed): over a sequence of requests against the same build
\* directory, the directory holds no file of a recognized class when a
\* compiler invocation starts, and a contract record's compiled program and
\* initial storage come from files its own invocation wrote.
C17_OwnInvocationOnly ==
    /\ \A k \in 1..Len(invocations) : NoRecognizedName(invocations[k].dirNames)
    /\ \A k \in 1..Len(contracts) :
           LET c == contracts[k]
               w == settlements[k].written
           IN  /\ \/ c.michelson = Undefined
                  \/ \E f \in JsonPrograms(w) :
                         c.michelson = [by |-> f.by, form |-> "compact"]
               /\ \/ c.initialStorage = Undefined
                  \/ \E f \in StorageFiles(w) :
                         c.initialStorage = [by |-> f.by, form |-> f.form]


\* The paths a request is about have been handed over (by the caller, or by
\* the collaborator of compile.all or compile.necessary), and none of them
\* ends in ".py".
NoMatchingPath ==
    /\ request.entry # "none"
    /\ phase \notin {"find_contracts", "updated"}
    /\ ~request.failed
    /\ \A i \in 1..Len(request.paths) : ~EndsWith(request.paths[i], Str_py)

\* C18: only source paths matching the extension pattern are passed to the
\* compiler; when a request contains no matching path, the preflight check
\* and the compiler are never run, and the caller's callback receives an
\* empty result mapping and an empty path list.
C18_OnlyMatchingPathsCompiled ==
    /\ \A k \in 1..Len(invocations) :
           /\ EndsWith(invocations[k].sourcePath, Str_py)
           /\ invocations[k].sourcePath \in {Path_a_foo_py, Path_b_foo_py, Path_a_bar_py}
    /\ \A proc \in procs : EndsWith(proc.sourcePath, Str_py)
    /\ NoMatchingPath =>
           /\ phase = "done"
           /\ execCount = 0
           /\ checked = NotChecked
           /\ invocations = <<>>
           /\ procs = {}
           /\ options.callbackPassed => calls = <<Call(NoError, TRUE, <<>>, <<>>)>>

\* A request for a/foo.txt alone was answered with the empty result.
C18_Witness ==
    /\ request.paths = <<Path_a_foo_txt>>
    /\ phase = "done"
    /\ calls = <<Call(NoError, TRUE, <<>>, <<>>)>>
    /\ execCount = 0

\* C19: the caller's callback is invoked at most once in a request; a call
\* carries either an error or a result, never both, and no caller gets a
\* result both through its callback and through the returned promise.
C19_CallbackAtMostOnce ==
    /\ Len(calls) <= 1
    /\ \A k \in 1..Len(calls) : calls[k].hasResult <=> (calls[k].err = NoError)
    /\ ~(calls # <<>> /\ returned.hasResult)
    /\ phase # "done" => calls = <<>>

\* An invocation whose promise was rejected and then resolved ended the
\* request with one call of the callback, carrying the error.
C19_Witness ==
    /\ request.entry \in {"all", "necessary"}
    /\ Len(settlements) > 0
    /\ settlements[Len(settlements)].state = "rejected"
    /\ Len(calls) = 1
    /\ calls[1].err = settlements[Len(settlements)].reason
    /\ ~calls[1].hasResult

====
